---- MODULE Spec2Model ----
(***************************************************************************)
(* Event-sourced graph construction of bevydot: the GraphEvent vocabulary  *)
(* (src/src/events.rs) and the GraphState state machine                    *)
(* (src/src/graph_state.rs) on top of petgraph's index-based DiGraph.      *)
(*                                                                         *)
(* Option<T> is written as a set with at most one element: None is {} and  *)
(* Some(x) is {x}.  A NodeIndex is a natural number counted from 0, so the  *)
(* node stored at index i is graph_nodes[i + 1].                            *)
(***************************************************************************)
EXTENDS Bags, FiniteSets, Integers, Sequences, TLC

\* ------------------------------------------------------------- bounds
\* Largest number of process_event calls made in one session.
MaxCalls == 5
\* Largest number of events queued by one open batch.
MaxQueue == 2
\* Longest event sequence handed to one process_events call.
MaxLen == 4
\* Largest number of lines of a DOT document.
MaxLines == 3
\* Largest numbers of nodes and of edges of a graph handed to DotSource::events.
MaxNodes == 3
MaxEdges == 1
\* Longest event list plantuml::parse returns.
MaxParsed == 2
\* Largest number of fragments a text handed to detect_format is made of.
MaxFragments == 3

\* ------------------------------------------------------------- values
Ids == {"A", "B"}

None == {}
Some(x) == {x}

\* EventNodeInfo values (events.rs 5-9): name, node_type, level.
EventNodeInfos ==
    { [name |-> "n1", node_type |-> None, level |-> 0],
      [name |-> "n2", node_type |-> Some("team"), level |-> 1] }

\* `info.into()` (graph_state.rs 44, 55): EventNodeInfo -> NodeInfo, field by field.
IntoNodeInfo(info) ==
    [name |-> info.name, node_type |-> info.node_type, level |-> info.level]

\* EventEdgeInfo values (events.rs 13-17).
EventEdgeInfos ==
    { [label |-> Some("Request"), edge_type |-> Some("sync"), sequence |-> Some(1)] }

\* GraphEvent (events.rs 22-53).
AddNode(id, info) == [type |-> "AddNode", id |-> id, info |-> info]
UpdateNode(id, info) == [type |-> "UpdateNode", id |-> id, info |-> info]
RemoveNode(id) == [type |-> "RemoveNode", id |-> id]
AddEdge(from, to) == [type |-> "AddEdge", from |-> from, to |-> to]
AddRichEdge(from, to, info) ==
    [type |-> "AddRichEdge", from |-> from, to |-> to, info |-> info]
RemoveEdge(from, to) == [type |-> "RemoveEdge", from |-> from, to |-> to]
Clear == [type |-> "Clear"]
BatchStart == [type |-> "BatchStart"]
BatchEnd == [type |-> "BatchEnd"]

GraphEvent ==
    {AddNode(id, info) : id \in Ids, info \in EventNodeInfos}
    \cup {UpdateNode(id, info) : id \in Ids, info \in EventNodeInfos}
    \cup {RemoveNode(id) : id \in Ids}
    \cup {AddEdge(p[1], p[2]) : p \in Ids \X Ids}
    \cup {AddRichEdge(p[1], p[2], info) : p \in Ids \X Ids, info \in EventEdgeInfos}
    \cup {RemoveEdge(p[1], p[2]) : p \in Ids \X Ids}
    \cup {Clear, BatchStart, BatchEnd}

\* EventResult (events.rs 97-108).
EventResult == {"Success", "NodeExists", "NodeNotFound", "EdgeExists", "EdgeNotFound"}
\* What a call yields instead of an EventResult when it does not return one:
\* the unwinding of a panic, and an event for which process_event has no arm.
Panic == "Panic"
Unhandled == "Unhandled"

\* Mutant: a rich edge affects its source only.
AffectsNodeRichSourceOnly(event, id) ==
    CASE event.type \in {"AddNode", "UpdateNode", "RemoveNode"} -> event.id = id
      [] event.type \in {"AddEdge", "RemoveEdge"} -> event.from = id \/ event.to = id
      [] event.type = "AddRichEdge" -> event.from = id
      [] event.type = "Clear" -> TRUE
      [] event.type \in {"BatchStart", "BatchEnd"} -> FALSE

\* GraphEvent::affects_node (events.rs 58-70).
affects_node(event, id) ==
    CASE event.type \in {"AddNode", "UpdateNode", "RemoveNode"} -> event.id = id
      [] event.type \in {"AddEdge", "RemoveEdge"} -> event.from = id \/ event.to = id
      [] event.type = "AddRichEdge" -> event.from = id \/ event.to = id
      [] event.type = "Clear" -> TRUE
      [] event.type \in {"BatchStart", "BatchEnd"} -> FALSE

\* ------------------------------------------------- petgraph DiGraph<N, ()>
\* The graph is the node arena graph_nodes (a Vec of weights) and the edges,
\* kept as the multiset graph_edges of <<source index, target index>>.

\* Graph::node_weight(idx): None when idx is past the end of the arena.
node_weight(st, idx) ==
    IF idx < Len(st.graph_nodes) THEN Some(st.graph_nodes[idx + 1]) ELSE None

\* Graph::add_node: push at the end; the new index is the old length.
add_node(st, weight) == [st EXCEPT !.graph_nodes = Append(@, weight)]

\* Graph::find_edge(a, b).is_some(): None when a is out of bounds, otherwise
\* a search of a's outgoing edges for the target b.
find_edge(st, a, b) ==
    a < Len(st.graph_nodes) /\ BagIn(<<a, b>>, st.graph_edges)

\* Graph::add_edge panics when an endpoint index is out of bounds.
add_edge_panics(st, a, b) ==
    (IF a > b THEN a ELSE b) >= Len(st.graph_nodes)

add_edge(st, a, b) ==
    IF add_edge_panics(st, a, b)
    THEN [st EXCEPT !.panicked = TRUE]
    ELSE [st EXCEPT !.graph_edges = @ (+) SetToBag({<<a, b>>})]

\* Graph::remove_edge of the edge found between a and b.
remove_edge(st, a, b) == [st EXCEPT !.graph_edges = @ (-) SetToBag({<<a, b>>})]

\* The edges left once every edge from or to index a is removed.
EdgesWithout(edges, a) ==
    LET keep == {e \in BagToSet(edges) : e[1] # a /\ e[2] # a}
    IN  [e \in keep |-> edges[e]]

\* The edges after the node at index old moved to index new (no edge touches
\* new any more when this is applied, so the renaming is one to one).
EdgesMoved(edges, old, new) ==
    LET mv(i) == IF i = old THEN new ELSE i
        to(e) == <<mv(e[1]), mv(e[2])>>
        dom == {to(e) : e \in BagToSet(edges)}
    IN  [d \in dom |-> edges[CHOOSE e \in BagToSet(edges) : to(e) = d]]

\* Vec::swap_remove(a) on the node arena: the last element takes slot a.
SwapRemove(nodes, a) ==
    LET last == Len(nodes)
    IN  IF a + 1 = last THEN SubSeq(nodes, 1, last - 1)
        ELSE SubSeq(nodes, 1, a) \o <<nodes[last]>> \o SubSeq(nodes, a + 2, last - 1)

\* Graph::remove_node(a): nothing when a is out of bounds; otherwise every edge
\* of a is removed, the arena is swap_removed at a, and the edges of the node
\* that had the last index are re-pointed to a.
remove_node(st, a) ==
    IF a >= Len(st.graph_nodes) THEN st
    ELSE [st EXCEPT
            !.graph_nodes = SwapRemove(@, a),
            !.graph_edges =
                EdgesMoved(EdgesWithout(@, a), Len(st.graph_nodes) - 1, a)]

\* Graph::clear.
graph_clear(st) == [st EXCEPT !.graph_nodes = <<>>, !.graph_edges = EmptyBag]

\* ------------------------------------------------------------ GraphState
\* GraphState::new (graph_state.rs 22-29).  panicked records that a call
\* unwound; it is not a field of the struct.
GraphStateNew ==
    [graph_nodes |-> <<>>,
     graph_edges |-> EmptyBag,
     node_map |-> [id \in Ids |-> None],
     in_batch |-> FALSE,
     batch_events |-> <<>>,
     panicked |-> FALSE]

Idx(opt) == CHOOSE i \in opt : TRUE

\* node_count / edge_count (graph_state.rs 181-189).
node_count(st) == Len(st.graph_nodes)
edge_count(st) == BagCardinality(st.graph_edges)

\* get_node (graph_state.rs 193-197).
get_node(st, id) ==
    IF st.node_map[id] = None THEN None ELSE node_weight(st, Idx(st.node_map[id]))

Outcome(st, result) == [st |-> st, result |-> result]

\* Mutant: the method takes the queue, as mem::take does in the BatchEnd arm.
ReadTakesQueue(st) == [st EXCEPT !.batch_events = <<>>]

\* The state a `&self` method leaves behind (as_graph_data, node_count,
\* edge_count, get_node: graph_state.rs 132, 181, 187, 193).
LiveAfterRead(st) == st

\* The orders in which a HashMap holding the ids of S may be iterated.
IterationOrders(S) ==
    {o \in [1..Cardinality(S) -> S] :
        \A i \in DOMAIN o, j \in DOMAIN o : i # j => o[i] # o[j]}

\* The node loop of as_graph_data (graph_state.rs 137-146): every id whose
\* index still has a weight gets a copy of that weight in the new graph.
RECURSIVE RebuildNodes(_, _, _)
RebuildNodes(st, order, new) ==
    IF order = <<>> THEN new
    ELSE LET id == Head(order)
             w == node_weight(st, Idx(st.node_map[id]))
         IN  RebuildNodes(st, Tail(order),
                IF w = None THEN new
                ELSE [new EXCEPT
                        !.graph_nodes = Append(@, [name |-> Idx(w).name,
                                                   node_type |-> Idx(w).node_type,
                                                   level |-> Idx(w).level]),
                        !.node_map[id] = Some(Len(new.graph_nodes))])

\* The reverse lookup of the edge loop (graph_state.rs 152-161): the first id,
\* in iteration order, whose index is idx.
RECURSIVE FindId(_, _, _)
FindId(st, order, idx) ==
    IF order = <<>> THEN None
    ELSE IF st.node_map[Head(order)] = Some(idx) THEN Some(Head(order))
    ELSE FindId(st, Tail(order), idx)

\* The edge loop of as_graph_data (graph_state.rs 149-171): an edge is copied
\* when both endpoint indices are found in the old map under ids that have a
\* new index.  Different old indices resolve to different ids, so the copying
\* is one to one on the edges it keeps.
CopyEdges(st, order, new_map) ==
    LET new_idx(i) == IF FindId(st, order, i) = None THEN None
                      ELSE new_map[Idx(FindId(st, order, i))]
        kept == {e \in BagToSet(st.graph_edges) :
                    new_idx(e[1]) # None /\ new_idx(e[2]) # None}
        to(e) == <<Idx(new_idx(e[1])), Idx(new_idx(e[2]))>>
    IN  [d \in {to(e) : e \in kept} |->
            st.graph_edges[CHOOSE e \in kept : to(e) = d]]

\* GraphState::as_graph_data (graph_state.rs 132-177), the id map being
\* iterated in the given order.
as_graph_data(st, order) ==
    LET new == RebuildNodes(st, order,
                   [graph_nodes |-> <<>>,
                    node_map |-> [id \in DOMAIN st.node_map |-> None]])
    IN  [graph_nodes |-> new.graph_nodes,
         graph_edges |-> CopyEdges(st, order, new.node_map),
         node_map |-> new.node_map]

\* Mutant: an AddNode on a present id overwrites the node's NodeInfo.
ArmAddNodeOverwrites(st, event) ==
    IF st.node_map[event.id] # None
    THEN LET idx == Idx(st.node_map[event.id])
         IN  IF idx < Len(st.graph_nodes)
             THEN Outcome([st EXCEPT !.graph_nodes[idx + 1] = IntoNodeInfo(event.info)],
                          "NodeExists")
             ELSE Outcome(st, "NodeExists")
    ELSE LET idx == Len(st.graph_nodes)
             s1 == add_node(st, IntoNodeInfo(event.info))
         IN  Outcome([s1 EXCEPT !.node_map[event.id] = Some(idx)], "Success")

\* The AddNode arm (graph_state.rs 40-48).
ArmAddNode(st, event) ==
    IF st.node_map[event.id] # None
    THEN Outcome(st, "NodeExists")
    ELSE LET idx == Len(st.graph_nodes)
             s1 == add_node(st, IntoNodeInfo(event.info))
         IN  Outcome([s1 EXCEPT !.node_map[event.id] = Some(idx)], "Success")

\* The UpdateNode arm (graph_state.rs 50-61).
ArmUpdateNode(st, event) ==
    IF st.node_map[event.id] # None
    THEN LET idx == Idx(st.node_map[event.id])
         IN  IF node_weight(st, idx) = None
             THEN Outcome(st, "NodeNotFound")
             ELSE Outcome([st EXCEPT !.graph_nodes[idx + 1] = IntoNodeInfo(event.info)],
                          "Success")
    ELSE Outcome(st, "NodeNotFound")

\* The RemoveNode arm (graph_state.rs 63-71).
ArmRemoveNode(st, event) ==
    IF st.node_map[event.id] # None
    THEN LET idx == Idx(st.node_map[event.id])
             s1 == [st EXCEPT !.node_map[event.id] = None]
         IN  Outcome(remove_node(s1, idx), "Success")
    ELSE Outcome(st, "NodeNotFound")

\* The AddEdge arm (graph_state.rs 73-86).
ArmAddEdge(st, event) ==
    IF st.node_map[event.from] # None /\ st.node_map[event.to] # None
    THEN LET from_idx == Idx(st.node_map[event.from])
             to_idx == Idx(st.node_map[event.to])
         IN  IF find_edge(st, from_idx, to_idx)
             THEN Outcome(st, "EdgeExists")
             ELSE IF add_edge_panics(st, from_idx, to_idx)
                  THEN Outcome(add_edge(st, from_idx, to_idx), Panic)
                  ELSE Outcome(add_edge(st, from_idx, to_idx), "Success")
    ELSE Outcome(st, "NodeNotFound")

\* The RemoveEdge arm (graph_state.rs 88-100).
ArmRemoveEdge(st, event) ==
    IF st.node_map[event.from] # None /\ st.node_map[event.to] # None
    THEN LET from_idx == Idx(st.node_map[event.from])
             to_idx == Idx(st.node_map[event.to])
         IN  IF find_edge(st, from_idx, to_idx)
             THEN Outcome(remove_edge(st, from_idx, to_idx), "Success")
             ELSE Outcome(st, "EdgeNotFound")
    ELSE Outcome(st, "NodeNotFound")

\* Mutant: Clear empties the graph and keeps the id map.
ArmClearKeepsMap(st, event) == Outcome(graph_clear(st), "Success")

\* The Clear arm (graph_state.rs 102-106).
ArmClear(st, event) ==
    Outcome([graph_clear(st) EXCEPT !.node_map = [id \in Ids |-> None]], "Success")

\* The BatchStart arm (graph_state.rs 108-112).
ArmBatchStart(st, event) ==
    Outcome([st EXCEPT !.in_batch = TRUE, !.batch_events = <<>>], "Success")

\* The match of process_event has no arm for AddRichEdge (graph_state.rs
\* 39-123 against events.rs 36-40): the event is not applied and no
\* EventResult comes back for it.
ArmAddRichEdge(st, event) == Outcome(st, Unhandled)

\* Mutant: a BatchStart is never queued.
QueuesButBatchStart(st, event) ==
    st.in_batch /\ event.type \notin {"BatchEnd", "BatchStart"}

\* The queuing test at the head of process_event (graph_state.rs 33-37).
Queues(st, event) == st.in_batch /\ event.type # "BatchEnd"

\* Mutant: the event is put at the front of the queue.
QueueEventAtFront(st, event) ==
    Outcome([st EXCEPT !.batch_events = <<event>> \o @], "Success")

QueueEvent(st, event) ==
    Outcome([st EXCEPT !.batch_events = Append(@, event)], "Success")

RECURSIVE ProcessEvent(_, _)
RECURSIVE FlushEvents(_, _)
RECURSIVE FlushEventsBackwards(_, _)
RECURSIVE FlushEventsUntilRejected(_, _)

\* Mutant: the taken events are applied last to first.
FlushEventsBackwards(st, events) ==
    IF events = <<>> \/ st.panicked THEN st
    ELSE FlushEventsBackwards(ProcessEvent(st, events[Len(events)]).st,
                              SubSeq(events, 1, Len(events) - 1))

\* Mutant: the loop ends at the first event that is not applied with Success.
FlushEventsUntilRejected(st, events) ==
    IF events = <<>> \/ st.panicked THEN st
    ELSE LET r == ProcessEvent(st, Head(events))
         IN  IF r.result \in {"NodeExists", "NodeNotFound", "EdgeExists", "EdgeNotFound"}
             THEN r.st
             ELSE FlushEventsUntilRejected(r.st, Tail(events))

\* The loop of the BatchEnd arm (graph_state.rs 118-120): every taken event is
\* handed to process_event in order, its result dropped; a panic ends the loop.
FlushEvents(st, events) ==
    IF events = <<>> \/ st.panicked THEN st
    ELSE FlushEvents(ProcessEvent(st, Head(events)).st, Tail(events))

\* Mutant: BatchEnd applies the queued events and leaves them in the queue.
ArmBatchEndKeepsQueue(st, event) ==
    LET s1 == [st EXCEPT !.in_batch = FALSE, !.batch_events = <<>>]
        s2 == FlushEvents(s1, st.batch_events)
    IN  Outcome([s2 EXCEPT !.batch_events = st.batch_events \o @],
                IF s2.panicked THEN Panic ELSE "Success")

\* Mutant: a BatchEnd with no batch open clears the graph.
ArmBatchEndClearsWhenStray(st, event) ==
    LET s1 == [st EXCEPT !.in_batch = FALSE, !.batch_events = <<>>]
        s2 == FlushEvents(s1, st.batch_events)
    IN  IF st.in_batch THEN Outcome(s2, IF s2.panicked THEN Panic ELSE "Success")
        ELSE Outcome(graph_clear(s2), "Success")

\* The BatchEnd arm (graph_state.rs 114-122).
ArmBatchEnd(st, event) ==
    LET s1 == [st EXCEPT !.in_batch = FALSE, !.batch_events = <<>>]
        s2 == FlushEvents(s1, st.batch_events)
    IN  Outcome(s2, IF s2.panicked THEN Panic ELSE "Success")

\* GraphState::process_event (graph_state.rs 32-124).
ProcessEvent(st, event) ==
    IF Queues(st, event) THEN QueueEvent(st, event)
    ELSE CASE event.type = "AddNode" -> ArmAddNode(st, event)
           [] event.type = "UpdateNode" -> ArmUpdateNode(st, event)
           [] event.type = "RemoveNode" -> ArmRemoveNode(st, event)
           [] event.type = "AddEdge" -> ArmAddEdge(st, event)
           [] event.type = "AddRichEdge" -> ArmAddRichEdge(st, event)
           [] event.type = "RemoveEdge" -> ArmRemoveEdge(st, event)
           [] event.type = "Clear" -> ArmClear(st, event)
           [] event.type = "BatchStart" -> ArmBatchStart(st, event)
           [] event.type = "BatchEnd" -> ArmBatchEnd(st, event)

RECURSIVE ProcessEvents(_, _)
\* GraphState::process_events (graph_state.rs 127-129): map process_event over
\* the events and collect the results.  A panic unwinds out of the call: the
\* outcomes up to it are followed by Panic and nothing is produced after it.
ProcessEvents(st, events) ==
    IF events = <<>> THEN [st |-> st, results |-> <<>>]
    ELSE LET r == ProcessEvent(st, Head(events))
         IN  IF r.st.panicked
             THEN [st |-> r.st, results |-> <<Panic>>]
             ELSE LET rest == ProcessEvents(r.st, Tail(events))
                  IN  [st |-> rest.st, results |-> <<r.result>> \o rest.results]

\* ------------------------------------------------------------------ text
\* A string is the sequence of its characters, each a one-character string;
\* a document is the sequence of its lines (what content.lines() yields).
Whitespace == {" ", "\t", "\n"}

Min(S) == CHOOSE x \in S : \A y \in S : x <= y
Max(S) == CHOOSE x \in S : \A y \in S : x >= y

\* The offsets (from 0) at which pat occurs in s.
Occurrences(s, pat) ==
    {i \in 0..(Len(s) - Len(pat)) : SubSeq(s, i + 1, i + Len(pat)) = pat}

\* str::contains, str::find, str::rfind.
Contains(s, pat) == Occurrences(s, pat) # {}
Find(s, pat) == IF Contains(s, pat) THEN Some(Min(Occurrences(s, pat))) ELSE None
RFind(s, pat) == IF Contains(s, pat) THEN Some(Max(Occurrences(s, pat))) ELSE None

\* s[..n] and s[n..].
Upto(s, n) == SubSeq(s, 1, n)
From(s, n) == SubSeq(s, n + 1, Len(s))

\* str::trim_start_matches / trim_end_matches / trim_matches for a set of
\* characters, and str::trim.
RECURSIVE TrimStartIn(_, _)
TrimStartIn(s, cs) ==
    IF s # <<>> /\ Head(s) \in cs THEN TrimStartIn(Tail(s), cs) ELSE s

RECURSIVE TrimEndIn(_, _)
TrimEndIn(s, cs) ==
    IF s # <<>> /\ s[Len(s)] \in cs THEN TrimEndIn(Upto(s, Len(s) - 1), cs) ELSE s

TrimMatches(s, c) == TrimEndIn(TrimStartIn(s, {c}), {c})
TrimEndMatches(s, c) == TrimEndIn(s, {c})
Trim(s) == TrimEndIn(TrimStartIn(s, Whitespace), Whitespace)

\* str::split(pat).collect(): the pieces between the occurrences of pat.
RECURSIVE Split(_, _)
Split(s, pat) ==
    IF Find(s, pat) = None THEN <<s>>
    ELSE <<Upto(s, Idx(Find(s, pat)))>>
            \o Split(From(s, Idx(Find(s, pat)) + Len(pat)), pat)

\* str::to_lowercase on the letters the documents use.
LowerCase(c) ==
    CASE c = "T" -> "t" [] c = "U" -> "u" [] c = "A" -> "a" [] c = "B" -> "b"
      [] c = "C" -> "c" [] OTHER -> c

ToLowercase(s) == [i \in 1..Len(s) |-> LowerCase(s[i])]

Digits == <<"0", "1", "2", "3", "4", "5", "6", "7", "8", "9">>
DigitValue(c) == (CHOOSE i \in 1..10 : Digits[i] = c) - 1
IsDigit(c) == \E i \in 1..10 : Digits[i] = c

RECURSIVE DecimalValue(_)
DecimalValue(s) ==
    IF s = <<>> THEN 0
    ELSE 10 * DecimalValue(Upto(s, Len(s) - 1)) + DigitValue(s[Len(s)])

\* value.parse::<u32>(): Some(n) for decimal digits after an optional '+',
\* None for anything else and for a number that does not fit 32 bits (taken
\* here as one of more than nine digits; the documents use one or two).
ParseU32(s) ==
    LET digits == IF s # <<>> /\ Head(s) = "+" THEN Tail(s) ELSE s
        number == TrimStartIn(digits, {"0"})
    IN  IF digits # <<>> /\ (\A i \in 1..Len(digits) : IsDigit(digits[i]))
           /\ Len(number) <= 9
        THEN Some(DecimalValue(number))
        ELSE None

\* The decimal digits of n, as format!("{}", n) writes them.
RECURSIVE Decimal(_)
Decimal(n) ==
    IF n < 10 THEN <<Digits[n + 1]>>
    ELSE Decimal(n \div 10) \o <<Digits[(n % 10) + 1]>>

\* ------------------------------------------------------------ DOT parser
\* NodeType (types.rs 6-13) by the names of its variants, and NodeType::parse
\* (types.rs 15-27).
NodeTypes == {"Organization", "LineOfBusiness", "Site", "Team", "User", "Default"}

NodeTypeParse(value) ==
    LET v == ToLowercase(value)
    IN  CASE v \in {<<"o","r","g","a","n","i","z","a","t","i","o","n">>,
                    <<"o","r","g">>} -> "Organization"
          [] v \in {<<"l","o","b">>,
                    <<"l","i","n","e","o","f","b","u","s","i","n","e","s","s">>,
                    <<"l","i","n","e","_","o","f","_","b","u","s","i","n","e","s","s">>}
                -> "LineOfBusiness"
          [] v = <<"s","i","t","e">> -> "Site"
          [] v = <<"t","e","a","m">> -> "Team"
          [] v = <<"u","s","e","r">> -> "User"
          [] OTHER -> "Default"

\* The attribute loop (parser.rs 26-38): each `key=value` piece of the block
\* sets the type or the level; anything else is skipped.
RECURSIVE ParseAttrs(_, _)
ParseAttrs(attrs, acc) ==
    IF attrs = <<>> THEN acc
    ELSE LET parts == Split(Head(attrs), <<"=">>)
             key == Trim(parts[1])
             value == TrimMatches(Trim(parts[2]), "\"")
             next ==
                IF Len(parts) # 2 THEN acc
                ELSE IF key = <<"t","y","p","e">>
                THEN [acc EXCEPT !.node_type = NodeTypeParse(value)]
                ELSE IF key = <<"l","e","v","e","l">>
                THEN [acc EXCEPT !.level =
                        IF ParseU32(value) = None THEN 0 ELSE Idx(ParseU32(value))]
                ELSE acc
         IN  ParseAttrs(Tail(attrs), next)

\* A line is a node definition with attributes (parser.rs 16).
IsNodeDefinition(trimmed) ==
    /\ Contains(trimmed, <<"[">>)
    /\ Contains(trimmed, <<"]">>)
    /\ ~Contains(trimmed, <<"-", ">">>)

\* The slice of parser.rs 21 panics when the last ']' comes before the
\* character after the first '['.
AttrSlicePanics(trimmed) ==
    Idx(RFind(trimmed, <<"]">>)) < Idx(Find(trimmed, <<"[">>)) + 1

\* The first pass of parse_dot_file (parser.rs 12-43): node_attributes, a map
\* from node id to (node_type, level); panicked when a slice panicked.
RECURSIVE AttributePass(_, _)
AttributePass(lines, acc) ==
    IF lines = <<>> \/ acc.panicked THEN acc
    ELSE LET trimmed == Trim(Head(lines))
             node_end == Idx(Find(trimmed, <<"[">>))
             node_id == TrimMatches(Trim(Upto(trimmed, node_end)), "\"")
             attrs_str == SubSeq(trimmed, node_end + 2, Idx(RFind(trimmed, <<"]">>)))
             attr == ParseAttrs(Split(attrs_str, <<",">>),
                                [node_type |-> "Default", level |-> 0])
             next ==
                IF ~IsNodeDefinition(trimmed) THEN acc
                ELSE IF AttrSlicePanics(trimmed) THEN [acc EXCEPT !.panicked = TRUE]
                ELSE [acc EXCEPT !.attributes =
                        [id \in DOMAIN @ \cup {node_id} |->
                            IF id = node_id THEN attr ELSE @[id]]]
         IN  AttributePass(Tail(lines), next)

\* Mutant: a new node gets the default type and level whatever was declared.
EnsureNodeUndeclared(g, attributes, name) ==
    IF name \in DOMAIN g.node_map THEN g
    ELSE [g EXCEPT
            !.graph_nodes = Append(@, [name |-> name, node_type |-> "Default",
                                       level |-> 0]),
            !.node_map = [id \in DOMAIN @ \cup {name} |->
                            IF id = name THEN Len(g.graph_nodes) ELSE @[id]]]

\* `node_map.entry(name).or_insert_with(..)` (parser.rs 69-91): the index of the
\* node called name, which is added with its attributes when it is new.
EnsureNode(g, attributes, name) ==
    IF name \in DOMAIN g.node_map THEN g
    ELSE LET attr == IF name \in DOMAIN attributes THEN attributes[name]
                     ELSE [node_type |-> "Default", level |-> 0]
         IN  [g EXCEPT
                !.graph_nodes = Append(@, [name |-> name,
                                           node_type |-> attr.node_type,
                                           level |-> attr.level]),
                !.node_map = [id \in DOMAIN @ \cup {name} |->
                                IF id = name THEN Len(g.graph_nodes) ELSE @[id]]]

\* The target of an edge line (parser.rs 57-66).
EdgeTarget(to_part) ==
    IF Find(to_part, <<"[">>) = None
    THEN TrimMatches(Trim(TrimEndMatches(to_part, ";")), "\"")
    ELSE TrimEndMatches(
            TrimMatches(Trim(Upto(to_part, Idx(Find(to_part, <<"[">>)))), "\""), ";")

\* The second pass of parse_dot_file (parser.rs 46-96): every line with "->"
\* gives its two endpoints, created when new, and one edge between them.
RECURSIVE EdgePass(_, _, _)
EdgePass(lines, attributes, g) ==
    IF lines = <<>> THEN g
    ELSE LET trimmed == Trim(Head(lines))
             edge_line == IF Find(trimmed, <<"/", "/">>) = None THEN trimmed
                          ELSE Upto(trimmed, Idx(Find(trimmed, <<"/", "/">>)))
             parts == Split(edge_line, <<"-", ">">>)
             from == TrimMatches(Trim(parts[1]), "\"")
             to == EdgeTarget(Trim(parts[2]))
             g1 == EnsureNode(g, attributes, from)
             g2 == EnsureNode(g1, attributes, to)
             next ==
                IF ~Contains(trimmed, <<"-", ">">>) \/ Len(parts) < 2 THEN g
                ELSE [g2 EXCEPT !.edges =
                        Append(@, <<g2.node_map[from], g2.node_map[to]>>)]
         IN  EdgePass(Tail(lines), attributes, next)

\* A GraphData (types.rs 36-41): the node weights by index, the edges in the
\* order they were added, and the map from name to index.
EmptyGraphData ==
    [graph_nodes |-> <<>>, edges |-> <<>>, node_map |-> [id \in {} |-> 0],
     panicked |-> FALSE]

\* parse_dot_file (parser.rs 5-99).
parse_dot_file(content) ==
    LET pass1 == AttributePass(content, [attributes |-> [id \in {} |-> 0],
                                         panicked |-> FALSE])
    IN  IF pass1.panicked THEN [EmptyGraphData EXCEPT !.panicked = TRUE]
        ELSE EdgePass(content, pass1.attributes, EmptyGraphData)

\* ------------------------------------------------------------- DotSource
\* `EventNodeInfo::from(node_info)` (dot.rs 61): NodeInfo -> EventNodeInfo,
\* field by field.
FromNodeInfo(node_info) ==
    [name |-> node_info.name, node_type |-> node_info.node_type,
     level |-> node_info.level]

\* format!("{}_{}", node_id, counter) (dot.rs 47, 50).
Format(node_id, counter) == node_id \o <<"_">> \o Decimal(counter)

\* The while loop of dot.rs 48-51.
RECURSIVE Candidate(_, _, _)
Candidate(seen_nodes, node_id, counter) ==
    IF Format(node_id, counter) \in seen_nodes
    THEN Candidate(seen_nodes, node_id, counter + 1)
    ELSE Format(node_id, counter)

\* Mutant: the first candidate is taken without looking at the ids in use.
FinalIdFirstCandidate(seen_nodes, node_id) ==
    IF node_id \in seen_nodes THEN Format(node_id, 2) ELSE node_id

\* final_id (dot.rs 45-55).
FinalId(seen_nodes, node_id) ==
    IF node_id \in seen_nodes THEN Candidate(seen_nodes, node_id, 2) ELSE node_id

\* The node pass (dot.rs 39-64) over the node weights in index order.
RECURSIVE NodePass(_, _)
NodePass(nodes, seen_nodes) ==
    IF nodes = <<>> THEN <<>>
    ELSE LET final_id == FinalId(seen_nodes, Head(nodes).name)
         IN  <<AddNode(final_id, FromNodeInfo(Head(nodes)))>>
                \o NodePass(Tail(nodes), seen_nodes \cup {final_id})

\* The edge pass (dot.rs 67-80) over the edges in index order: the ids are the
\* names of the two endpoint weights.
EdgeEvents(graph_data) ==
    [i \in 1..Len(graph_data.edges) |->
        AddEdge(graph_data.graph_nodes[graph_data.edges[i][1] + 1].name,
                graph_data.graph_nodes[graph_data.edges[i][2] + 1].name)]

\* Mutant: the closing BatchEnd is not pushed.
DotSourceEventsUnclosed(graph_data) ==
    <<BatchStart>> \o NodePass(graph_data.graph_nodes, {}) \o EdgeEvents(graph_data)

\* DotSource::events (dot.rs 28-86) once dot::parse has returned graph_data.
DotSourceEvents(graph_data) ==
    <<BatchStart>> \o NodePass(graph_data.graph_nodes, {})
        \o EdgeEvents(graph_data) \o <<BatchEnd>>

\* --------------------------------------------------------- PlantUMLSource
\* What plantuml::parse hands over, as far as PlantUMLSource::events looks at
\* it (plantuml.rs 34-112): the events of the dotparser crate with the node
\* type, the position and the edge type of their variants.  Tags are text.
Database == <<"d", "a", "t", "a", "b", "a", "s", "e">>
Process == <<"p", "r", "o", "c", "e", "s", "s">>
External == <<"e", "x", "t", "e", "r", "n", "a", "l">>
ActorPrefix == <<"a", "c", "t", "o", "r", ":">>

ParsedNodeTypes ==
    { [kind |-> "Custom", text |-> <<"S", "v", "c">>],
      [kind |-> "Actor", actor_type |-> <<"U", "s", "e", "r">>],
      [kind |-> "DataStore"], [kind |-> "Process"], [kind |-> "External"],
      [kind |-> "Other"] }

ParsedPositions ==
    { None, Some([kind |-> "Sequential", order |-> 3]),
      Some([kind |-> "Layer", level |-> 0]), Some([kind |-> "Layer", level |-> 2]) }

MessageTypes == {"Synchronous", "Asynchronous", "Return", "Create", "Destroy"}

ParsedEdgeTypes ==
    { [kind |-> "Message", message_type |-> mt, sequence |-> seq] :
        mt \in MessageTypes, seq \in {None, Some(1)} }
        \cup { [kind |-> "Other"] }

ParsedEvents ==
    { [type |-> "BatchStart"], [type |-> "BatchEnd"], [type |-> "Other"] }
        \cup { [type |-> "AddNode", id |-> "User", label |-> label,
                node_type |-> node_type, position |-> position] :
                label \in {None, Some("Customer")},
                node_type \in ParsedNodeTypes, position \in ParsedPositions }
        \cup { [type |-> "AddEdge", from |-> "User", to |-> "Server",
                edge_type |-> edge_type, label |-> label] :
                edge_type \in ParsedEdgeTypes, label \in {None, Some("Request")} }

\* Result<Vec<dotparser::GraphEvent>, String>
ParseOk(events) == [ok |-> TRUE, events |-> events]
ParseErr(message) == [ok |-> FALSE, message |-> message]

\* SourceError::ParseError (sources/mod.rs 18).
ParseError(message) == [type |-> "ParseError", message |-> message]

\* The node_type of an AddNode (plantuml.rs 51-60).
UmlNodeType(node_type) ==
    CASE node_type.kind = "Custom" -> Some(node_type.text)
      [] node_type.kind = "Actor" -> Some(ActorPrefix \o node_type.actor_type)
      [] node_type.kind = "DataStore" -> Some(Database)
      [] node_type.kind = "Process" -> Some(Process)
      [] node_type.kind = "External" -> Some(External)
      [] OTHER -> None

\* The level of an AddNode (plantuml.rs 61-65).
UmlLevel(position) ==
    IF position = None THEN 1
    ELSE CASE Idx(position).kind = "Sequential" -> 0
           [] Idx(position).kind = "Layer" -> Idx(position).level
           [] OTHER -> 1

\* Mutant: the name is the id whether or not a label was given.
UmlNameIsId(id, label) == id

\* The name of an AddNode (plantuml.rs 50).
UmlName(id, label) == IF label = None THEN id ELSE Idx(label)

\* Mutant: every message is tagged "sync".
UmlTypeStrSync(message_type) == "sync"

\* The tag of a message kind (plantuml.rs 84-90).
UmlTypeStr(message_type) ==
    CASE message_type = "Synchronous" -> "sync"
      [] message_type = "Asynchronous" -> "async"
      [] message_type = "Return" -> "return"
      [] message_type = "Create" -> "create"
      [] message_type = "Destroy" -> "destroy"

\* The edge_type and sequence of an AddRichEdge (plantuml.rs 78-94).
UmlEdgeInfo(edge_type, label) ==
    IF edge_type.kind = "Message"
    THEN [label |-> label, edge_type |-> Some(UmlTypeStr(edge_type.message_type)),
          sequence |-> edge_type.sequence]
    ELSE [label |-> label, edge_type |-> None, sequence |-> None]

\* One pass of the loop of plantuml.rs 34-113: the events pushed for one event
\* of the parser.
UmlConvert(event) ==
    CASE event.type = "BatchStart" -> <<BatchStart>>
      [] event.type = "BatchEnd" -> <<BatchEnd>>
      [] event.type = "AddNode" ->
            <<AddNode(event.id, [name |-> UmlName(event.id, event.label),
                                 node_type |-> UmlNodeType(event.node_type),
                                 level |-> UmlLevel(event.position)])>>
      [] event.type = "AddEdge" ->
            <<AddRichEdge(event.from, event.to,
                          UmlEdgeInfo(event.edge_type, event.label))>>
      [] OTHER -> <<>>

RECURSIVE UmlConvertAll(_)
UmlConvertAll(events) ==
    IF events = <<>> THEN <<>>
    ELSE UmlConvert(Head(events)) \o UmlConvertAll(Tail(events))

\* Mutant: a failed parse gives Ok with no events.
PlantUMLEventsSwallowsError(result) ==
    IF result.ok THEN [ok |-> TRUE, events |-> UmlConvertAll(result.events)]
    ELSE [ok |-> TRUE, events |-> <<>>]

\* PlantUMLSource::events (plantuml.rs 27-116) once plantuml::parse has
\* returned result: Err is passed on as ParseError by `?`.
PlantUMLEvents(result) ==
    IF result.ok THEN [ok |-> TRUE, events |-> UmlConvertAll(result.events)]
    ELSE [ok |-> FALSE, error |-> ParseError(result.message)]

\* ---------------------------------------------------------- detect_format
\* The text of a document: its lines with a line feed between them.
RECURSIVE Text(_)
Text(document) ==
    IF document = <<>> THEN <<>>
    ELSE IF Len(document) = 1 THEN document[1]
    ELSE document[1] \o <<"\n">> \o Text(Tail(document))

StartUml == <<"@", "s", "t", "a", "r", "t", "u", "m", "l">>
StartSequence ==
    <<"@", "s", "t", "a", "r", "t", "s", "e", "q", "u", "e", "n", "c", "e">>
Digraph == <<"d", "i", "g", "r", "a", "p", "h">>
Graph == <<"g", "r", "a", "p", "h">>

\* Mutant: the DOT markers are looked for before the PlantUML markers.
DetectFormatDotFirst(text) ==
    LET trimmed == Trim(Text(text))
    IN  IF \/ Contains(trimmed, Digraph)
           \/ Contains(trimmed, Graph)
           \/ Contains(trimmed, <<"-", ">">>)
        THEN Some("dot")
        ELSE IF Contains(trimmed, StartUml) \/ Contains(trimmed, StartSequence)
        THEN Some("plantuml")
        ELSE IF Contains(trimmed, <<"[">>) /\ Contains(trimmed, <<"]">>)
        THEN Some("dot")
        ELSE None

\* detect_format (sources/mod.rs 109-128).
detect_format(text) ==
    LET trimmed == Trim(Text(text))
    IN  IF Contains(trimmed, StartUml) \/ Contains(trimmed, StartSequence)
        THEN Some("plantuml")
        ELSE IF \/ Contains(trimmed, Digraph)
                \/ Contains(trimmed, Graph)
                \/ Contains(trimmed, <<"-", ">">>)
        THEN Some("dot")
        ELSE IF Contains(trimmed, <<"[">>) /\ Contains(trimmed, <<"]">>)
        THEN Some("dot")
        ELSE None

\* ------------------------------------------------------ history of a run
\* What the calls made so far have reported, kept beside the program state:
\* ref is the graph by id as the outcomes describe it (nodes: the NodeInfo last
\* added or updated under each id, edges: the (from, to) pairs added and not
\* removed); an event counts when it went through the match and came back
\* Success.
RefNew == [nodes |-> [id \in Ids |-> None], edges |-> {}]

RefApply(ref, event, result) ==
    IF result # "Success" THEN ref
    ELSE CASE event.type = "AddNode" ->
                [ref EXCEPT !.nodes[event.id] = Some(IntoNodeInfo(event.info))]
           [] event.type = "UpdateNode" ->
                [ref EXCEPT !.nodes[event.id] = Some(IntoNodeInfo(event.info))]
           [] event.type = "RemoveNode" ->
                [ref EXCEPT !.nodes[event.id] = None,
                            !.edges = {e \in @ : e[1] # event.id /\ e[2] # event.id}]
           [] event.type \in {"AddEdge", "AddRichEdge"} ->
                [ref EXCEPT !.edges = @ \cup {<<event.from, event.to>>}]
           [] event.type = "RemoveEdge" ->
                [ref EXCEPT !.edges = @ \ {<<event.from, event.to>>}]
           [] event.type = "Clear" -> RefNew
           [] OTHER -> ref

RECURSIVE RefFlush(_, _, _)
RefFlush(ref, st, events) ==
    IF events = <<>> \/ st.panicked THEN ref
    ELSE LET r == ProcessEvent(st, Head(events))
             ref1 == IF Queues(st, Head(events)) THEN ref
                     ELSE RefApply(ref, Head(events), r.result)
         IN  RefFlush(ref1, r.st, Tail(events))

\* ref after one call of process_event(event) made in state st.
RefCall(ref, st, event) ==
    IF Queues(st, event) THEN ref
    ELSE IF event.type = "BatchEnd"
         THEN RefFlush(ref, [st EXCEPT !.in_batch = FALSE, !.batch_events = <<>>],
                       st.batch_events)
         ELSE RefApply(ref, event, ProcessEvent(st, event).result)

RECURSIVE RefCalls(_, _, _)
RefCalls(ref, st, events) ==
    IF events = <<>> \/ st.panicked THEN ref
    ELSE RefCalls(RefCall(ref, st, Head(events)),
                  ProcessEvent(st, Head(events)).st, Tail(events))

\* ------------------------------------------------------------- the runs
VARIABLES
    graph_nodes,    \* GraphState.graph: the node arena
    graph_edges,    \* GraphState.graph: the edges
    node_map,       \* GraphState.node_map
    in_batch,       \* GraphState.in_batch
    batch_events,   \* GraphState.batch_events
    panicked,       \* a call has unwound
    last_call,      \* "new", "process_event" or "process_events"
    last_events,    \* the events handed to the last call
    last_results,   \* what the last call gave back, one entry per event
    ref,            \* the graph by id, from the reported outcomes
    shadow,         \* Some(state had the open batch's events been applied unbatched)
    flushed,        \* Some(queue) right after a BatchEnd that closed a batch
    calls,          \* the number of calls made so far (one per event handed over)
    snapshot,       \* Some(the last ParserGraphData the caller got from as_graph_data)
    returned,       \* Some(the value the last read-only call gave back)
    content,        \* DotSource.content, the lines of the document
    graph_data,     \* Some(the graph dot::parse gave to DotSource::events)
    dot_events,     \* Some(the events DotSource::events returned)
    parsed,         \* Some(what plantuml::parse gave to PlantUMLSource::events)
    uml_events,     \* Some(what PlantUMLSource::events returned)
    node_id         \* Some(the id the last affects_node was asked about)

vars == <<graph_nodes, graph_edges, node_map, in_batch, batch_events, panicked,
          last_call, last_events, last_results, ref, shadow, flushed, calls,
          snapshot, returned, content, graph_data, dot_events, parsed,
          uml_events, node_id>>

source == <<content, graph_data, dot_events, parsed, uml_events, node_id>>

Self ==
    [graph_nodes |-> graph_nodes,
     graph_edges |-> graph_edges,
     node_map |-> node_map,
     in_batch |-> in_batch,
     batch_events |-> batch_events,
     panicked |-> panicked]

Becomes(st) ==
    /\ graph_nodes' = st.graph_nodes
    /\ graph_edges' = st.graph_edges
    /\ node_map' = st.node_map
    /\ in_batch' = st.in_batch
    /\ batch_events' = st.batch_events
    /\ panicked' = st.panicked

\* GraphState::new(), before any call.
Init ==
    /\ graph_nodes = GraphStateNew.graph_nodes
    /\ graph_edges = GraphStateNew.graph_edges
    /\ node_map = GraphStateNew.node_map
    /\ in_batch = GraphStateNew.in_batch
    /\ batch_events = GraphStateNew.batch_events
    /\ panicked = GraphStateNew.panicked
    /\ last_call = "new"
    /\ last_events = <<>>
    /\ last_results = <<>>
    /\ ref = RefNew
    /\ shadow = None
    /\ flushed = None
    /\ calls = 0
    /\ snapshot = None
    /\ returned = None
    /\ content = <<>>
    /\ graph_data = None
    /\ dot_events = None
    /\ parsed = None
    /\ uml_events = None
    /\ node_id = None

\* No BatchStart and no BatchEnd among the events.
NoMarkers(events) ==
    \A i \in 1..Len(events) : events[i].type \notin {"BatchStart", "BatchEnd"}

\* shadow follows a batch opened by a BatchStart call made with no batch open:
\* it starts as Some(state at that BatchStart) and takes every queued event at
\* once, as a caller without a batch would; it is None when no such batch is
\* followed (none was opened, or the queue that was flushed held a marker).
ShadowAfter(event) ==
    IF Queues(Self, event)
    THEN IF shadow = None \/ Idx(shadow).panicked THEN shadow
         ELSE Some(ProcessEvent(Idx(shadow), event).st)
    ELSE IF in_batch THEN (IF NoMarkers(batch_events) THEN shadow ELSE None)
    ELSE IF event.type = "BatchStart" THEN Some(Self)
    ELSE None

\* One call process_event(event) on the state.
Call(event) ==
    /\ ~panicked
    /\ last_call # "process_events"
    /\ calls < MaxCalls
    /\ Queues(Self, event) => Len(batch_events) < MaxQueue
    /\ calls' = calls + 1
    /\ LET r == ProcessEvent(Self, event)
       IN  /\ Becomes(r.st)
           /\ last_call' = "process_event"
           /\ last_events' = <<event>>
           /\ last_results' = <<r.result>>
           /\ ref' = RefCall(ref, Self, event)
           /\ shadow' = ShadowAfter(event)
           /\ flushed' = IF in_batch /\ event.type = "BatchEnd"
                         THEN Some(batch_events) ELSE None
    /\ snapshot' = snapshot
    /\ returned' = None
    /\ UNCHANGED source

DoAddNode == \E id \in Ids, info \in EventNodeInfos : Call(AddNode(id, info))
DoUpdateNode == \E id \in Ids, info \in EventNodeInfos : Call(UpdateNode(id, info))
DoRemoveNode == \E id \in Ids : Call(RemoveNode(id))
DoAddEdge == \E from \in Ids, to \in Ids : Call(AddEdge(from, to))
DoAddRichEdge ==
    \E from \in Ids, to \in Ids, info \in EventEdgeInfos : Call(AddRichEdge(from, to, info))
DoRemoveEdge == \E from \in Ids, to \in Ids : Call(RemoveEdge(from, to))
DoClear == Call(Clear)
DoBatchStart == Call(BatchStart)
DoBatchEnd == Call(BatchEnd)

Next ==
    \/ DoAddNode
    \/ DoUpdateNode
    \/ DoRemoveNode
    \/ DoAddEdge
    \/ DoAddRichEdge
    \/ DoRemoveEdge
    \/ DoClear
    \/ DoBatchStart
    \/ DoBatchEnd

\* A session: any sequence of process_event calls on one GraphState.
Spec == Init /\ [][Next]_vars

\* One call process_events(events) on a new GraphState.
DoProcessEvents ==
    /\ last_call = "new"
    /\ \E n \in 0..MaxLen : \E events \in [1..n -> GraphEvent] :
         LET r == ProcessEvents(Self, events)
         IN  /\ Becomes(r.st)
             /\ last_call' = "process_events"
             /\ last_events' = events
             /\ last_results' = r.results
             /\ ref' = RefCalls(ref, Self, events)
             /\ shadow' = None
             /\ flushed' = None
             /\ calls' = calls + Len(events)
    /\ snapshot' = snapshot
    /\ returned' = None
    /\ UNCHANGED source

NextEvents == DoProcessEvents

\* A new GraphState fed one event sequence through process_events.
SpecEvents == Init /\ [][NextEvents]_vars

\* The ids present in a state.
IdsOf(st) == {id \in DOMAIN st.node_map : st.node_map[id] # None}

\* A read-only call: the live state is what a `&self` method leaves, the
\* history of process_event calls stays as it is.
Read(name, value) ==
    /\ ~panicked
    /\ calls < MaxCalls
    /\ calls' = calls + 1
    /\ Becomes(LiveAfterRead(Self))
    /\ last_call' = name
    /\ returned' = Some(value)
    /\ UNCHANGED <<last_events, last_results, ref, shadow, flushed>>
    /\ UNCHANGED source

DoAsGraphData ==
    \E order \in IterationOrders(IdsOf(Self)) :
        /\ Read("as_graph_data", as_graph_data(Self, order))
        /\ snapshot' = returned'

DoNodeCount == Read("node_count", node_count(Self)) /\ snapshot' = snapshot
DoEdgeCount == Read("edge_count", edge_count(Self)) /\ snapshot' = snapshot
DoGetNode == \E id \in Ids : Read("get_node", get_node(Self, id)) /\ snapshot' = snapshot

NextReads ==
    \/ Next
    \/ DoAsGraphData
    \/ DoNodeCount
    \/ DoEdgeCount
    \/ DoGetNode

\* A session in which the caller also exports and inspects the graph.
SpecReads == Init /\ [][NextReads]_vars

\* ---------------------------------------------------- DOT documents
NameA == <<"A">>
NameB == <<"B">>
NameA2 == <<"A", "_", "2">>

\* [type="team", level="2"] and [type=User].
TeamBlock ==
    <<"[", "t", "y", "p", "e", "=", "\"", "t", "e", "a", "m", "\"", ",", " ",
      "l", "e", "v", "e", "l", "=", "\"", "2", "\"", "]">>
UserBlock == <<"[", "t", "y", "p", "e", "=", "U", "s", "e", "r", "]">>

\* What may follow the target of an edge: `;`, ` [s=d];` and `; // c`.
PlainTail == <<";">>
StyleTail == <<" ", "[", "s", "=", "d", "]", ";">>
CommentTail == <<";", " ", "/", "/", " ", "c">>

EdgeStatement(from, to, quoted, tail) ==
    [kind |-> "edge", from |-> from, to |-> to, quoted |-> quoted, tail |-> tail]
NodeStatement(name, block) == [kind |-> "node", name |-> name, block |-> block]
OtherLine(text) == [kind |-> "other", text |-> text]

\* The statements the documents are made of: edges (plain, with a quoted
\* source, with an attribute block, with a comment), standalone nodes (with
\* and without attributes), the graph header, and a line whose ']' comes
\* before its '['.
Statements ==
    { EdgeStatement(NameA, NameB, FALSE, PlainTail),
      EdgeStatement(NameB, NameA, FALSE, PlainTail),
      EdgeStatement(NameA, NameB, TRUE, PlainTail),
      EdgeStatement(NameA, NameB, FALSE, StyleTail),
      EdgeStatement(NameB, NameA, FALSE, CommentTail),
      NodeStatement(NameA, TeamBlock),
      NodeStatement(NameB, UserBlock),
      NodeStatement(NameB, <<>>),
      OtherLine(<<"d", "i", "g", "r", "a", "p", "h", " ", "{">>),
      OtherLine(<<"A", " ", "]", " ", "[">>) }

\* The text of a statement, indented as in the repository's tests.
Render(stmt) ==
    <<" ", " ">> \o
    CASE stmt.kind = "edge" ->
            (IF stmt.quoted THEN <<"\"">> \o stmt.from \o <<"\"">> ELSE stmt.from)
                \o <<" ", "-", ">", " ">> \o stmt.to \o stmt.tail
      [] stmt.kind = "node" ->
            IF stmt.block = <<>> THEN stmt.name \o <<";">>
            ELSE <<"\"">> \o stmt.name \o <<"\"", " ">> \o stmt.block \o <<";">>
      [] stmt.kind = "other" -> stmt.text

Lines == {Render(stmt) : stmt \in Statements}

Documents == UNION {[1..n -> Lines] : n \in 0..MaxLines}

\* The nodes a document refers to: the endpoints of its edge statements and
\* the names of its standalone node statements.
ReferencedBy(stmt) ==
    CASE stmt.kind = "edge" -> {stmt.from, stmt.to}
      [] stmt.kind = "node" -> {stmt.name}
      [] stmt.kind = "other" -> {}

Referenced(document) ==
    UNION {ReferencedBy(CHOOSE stmt \in Statements : Render(stmt) = document[i]) :
            i \in 1..Len(document)}

\* The graphs dot::parse may hand to DotSource::events: node weights whose
\* names may repeat, and edges between them in some order.
GraphDatas ==
    UNION {
        {[graph_nodes |-> [i \in 1..n |-> [name |-> names[i],
                                           node_type |-> "Default", level |-> 0]],
          edges |-> edges,
          node_map |-> [id \in {names[i] : i \in 1..n} |->
                            Max({i \in 1..n : names[i] = id}) - 1],
          panicked |-> FALSE] :
            names \in [1..n -> {NameA, NameA2}],
            edges \in UNION {[1..k -> (0..(n - 1)) \X (0..(n - 1))] : k \in 0..MaxEdges}} :
        n \in 0..MaxNodes}

\* ------------------------------------------------------- the DOT runs
\* A DotSource holding a document, and a new GraphState.
InitSource(text, graph) ==
    /\ graph_nodes = <<>>
    /\ graph_edges = EmptyBag
    /\ node_map = [id \in {} |-> None]
    /\ in_batch = FALSE
    /\ batch_events = <<>>
    /\ panicked = FALSE
    /\ last_call = "new"
    /\ last_events = <<>>
    /\ last_results = <<>>
    /\ ref = RefNew
    /\ shadow = None
    /\ flushed = None
    /\ calls = 0
    /\ snapshot = None
    /\ returned = None
    /\ content = text
    /\ graph_data = graph
    /\ dot_events = None
    /\ parsed = None
    /\ uml_events = None
    /\ node_id = None

InitDot == \E text \in Documents : InitSource(text, None)

\* The ids a sequence of events names.
IdsIn(events) ==
    UNION {CASE events[i].type \in {"AddNode", "UpdateNode", "RemoveNode"} ->
                {events[i].id}
             [] events[i].type \in {"AddEdge", "AddRichEdge", "RemoveEdge"} ->
                {events[i].from, events[i].to}
             [] OTHER -> {} : i \in 1..Len(events)}

\* source.events(): the document is parsed and the events are built from the
\* graph; a panic of the parser unwinds out of the call.
DoEvents ==
    /\ last_call = "new"
    /\ graph_data = None
    /\ LET g == parse_dot_file(content)
       IN  /\ graph_data' = Some(g)
           /\ dot_events' = IF g.panicked THEN None ELSE Some(DotSourceEvents(g))
           /\ panicked' = g.panicked
    /\ last_call' = "events"
    /\ UNCHANGED <<graph_nodes, graph_edges, node_map, in_batch, batch_events,
                   last_events, last_results, ref, shadow, flushed, calls,
                   snapshot, returned, content, parsed, uml_events, node_id>>

\* state.process_events(events) on the new GraphState; its id map is followed
\* on the ids the events name.
DoApplyEvents ==
    /\ last_call = "events"
    /\ dot_events # None
    /\ LET events == Idx(dot_events)
           r == ProcessEvents([Self EXCEPT !.node_map = [id \in IdsIn(events) |-> None]],
                              events)
       IN  /\ Becomes(r.st)
           /\ last_events' = events
           /\ last_results' = r.results
    /\ last_call' = "process_events"
    /\ UNCHANGED <<ref, shadow, flushed, calls, snapshot, returned>>
    /\ UNCHANGED source

\* state.as_graph_data() after the events were applied.
DoExport ==
    /\ last_call = "process_events"
    /\ dot_events # None
    /\ DoAsGraphData

NextDot ==
    \/ DoEvents
    \/ DoApplyEvents
    \/ DoExport

\* A document goes through DotSource::events, process_events, as_graph_data.
SpecDot == InitDot /\ [][NextDot]_vars

InitDotGraph == \E g \in GraphDatas : InitSource(<<>>, Some(g))

\* source.events() from the point where dot::parse has returned the graph.
DoEventsOfGraph ==
    /\ last_call = "new"
    /\ graph_data # None
    /\ dot_events' = Some(DotSourceEvents(Idx(graph_data)))
    /\ last_call' = "events"
    /\ UNCHANGED <<graph_nodes, graph_edges, node_map, in_batch, batch_events,
                   panicked, last_events, last_results, ref, shadow, flushed,
                   calls, snapshot, returned, content, graph_data, parsed,
                   uml_events, node_id>>

NextDotGraph ==
    \/ DoEventsOfGraph
    \/ DoApplyEvents

\* A graph goes through the rest of DotSource::events and process_events.
SpecDotGraph == InitDotGraph /\ [][NextDotGraph]_vars

\* ------------------------------------------------ documents of two edges
NameC == <<"C">>
Names == {NameA, NameB, NameC}

\* `X -> Y;`
EdgeText(edge) == edge[1] \o <<" ", "-", ">", " ">> \o edge[2] \o <<";">>

\* Two edge statements in a digraph block, one statement per line as in
\* test_simple_dot_to_events (dot.rs 96-101) ...
PerLine(e1, e2) ==
    << <<"d", "i", "g", "r", "a", "p", "h", " ", "{">>,
       <<" ", " ">> \o EdgeText(e1),
       <<" ", " ">> \o EdgeText(e2),
       <<"}">> >>

\* ... and the same block written on one line: `digraph { X -> Y; Z -> W; }`.
OneLine(e1, e2) ==
    << <<"d", "i", "g", "r", "a", "p", "h", " ", "{", " ">> \o EdgeText(e1)
            \o <<" ">> \o EdgeText(e2) \o <<" ", "}">> >>

TwoEdgeDocuments ==
    {PerLine(e1, e2) : e1 \in Names \X Names, e2 \in Names \X Names}
        \cup {OneLine(e1, e2) : e1 \in Names \X Names, e2 \in Names \X Names}

InitDotEdges == \E text \in TwoEdgeDocuments : InitSource(text, None)

\* A document of two edge statements goes through DotSource::events,
\* process_events and as_graph_data.
SpecDotEdges == InitDotEdges /\ [][NextDot]_vars

\* ------------------------------------------------ documents of typed nodes
\* Type texts: two outside the known set, a known one, and the known one
\* capitalised.
TagTexts ==
    { <<"u", "n", "k", "n", "o", "w", "n">>, <<"x">>, <<"t", "e", "a", "m">>,
      <<"T", "e", "a", "m">> }

\* `  name [type="tag"];`, or nothing when no type is declared for the name.
TypeStatement(name, tag) ==
    IF tag = None THEN <<>>
    ELSE << <<" ", " ">> \o name \o <<" ", "[", "t", "y", "p", "e", "=", "\"">>
                \o Idx(tag) \o <<"\"", "]", ";">> >>

\* The type statements of A and of B, then an edge between the two.
TypedDocument(tag_a, tag_b, edge) ==
    TypeStatement(NameA, tag_a) \o TypeStatement(NameB, tag_b)
        \o << <<" ", " ">> \o EdgeText(edge) >>

TypedDocuments ==
    {TypedDocument(tag_a, tag_b, edge) :
        tag_a \in {None} \cup {Some(t) : t \in TagTexts},
        tag_b \in {None} \cup {Some(t) : t \in TagTexts},
        edge \in {<<NameA, NameB>>, <<NameB, NameA>>}}

InitDotTypes == \E text \in TypedDocuments : InitSource(text, None)

\* A document of typed nodes goes through DotSource::events, process_events
\* and as_graph_data.
SpecDotTypes == InitDotTypes /\ [][NextDot]_vars

\* ---------------------------------------------------- the PlantUML runs
\* What plantuml::parse may return: an error with its message, or up to
\* MaxParsed events.
ParseResults ==
    {ParseErr("unterminated block")}
        \cup {ParseOk(events) :
                events \in UNION {[1..n -> ParsedEvents] : n \in 0..MaxParsed}}

\* A PlantUMLSource whose content plantuml::parse answers with result.
InitUml ==
    \E result \in ParseResults :
        /\ graph_nodes = <<>>
        /\ graph_edges = EmptyBag
        /\ node_map = [id \in {} |-> None]
        /\ in_batch = FALSE
        /\ batch_events = <<>>
        /\ panicked = FALSE
        /\ last_call = "new"
        /\ last_events = <<>>
        /\ last_results = <<>>
        /\ ref = RefNew
        /\ shadow = None
        /\ flushed = None
        /\ calls = 0
        /\ snapshot = None
        /\ returned = None
        /\ content = <<>>
        /\ graph_data = None
        /\ dot_events = None
        /\ parsed = Some(result)
        /\ uml_events = None
        /\ node_id = None

\* source.events() on the PlantUMLSource.
DoUmlEvents ==
    /\ last_call = "new"
    /\ parsed # None
    /\ uml_events' = Some(PlantUMLEvents(Idx(parsed)))
    /\ last_call' = "events"
    /\ UNCHANGED <<graph_nodes, graph_edges, node_map, in_batch, batch_events,
                   panicked, last_events, last_results, ref, shadow, flushed,
                   calls, snapshot, returned, content, graph_data, dot_events,
                   parsed, node_id>>

NextUml == DoUmlEvents

SpecUml == InitUml /\ [][NextUml]_vars

\* ------------------------------------------------ the detect_format runs
\* The pieces the texts are made of: the markers, the two halves of the edge
\* operator, the brackets, a letter, a blank and a line feed.
Fragments ==
    { StartUml, StartSequence, Digraph, Graph, <<"-">>, <<">">>, <<"[">>,
      <<"]">>, <<"x">>, <<" ">>, <<"\n">> }

RECURSIVE Concat(_)
Concat(pieces) == IF pieces = <<>> THEN <<>> ELSE Head(pieces) \o Concat(Tail(pieces))

Texts == {Concat(pieces) : pieces \in UNION {[1..n -> Fragments] : n \in 0..MaxFragments}}

InitDetect == \E text \in Texts : InitSource(Split(text, <<"\n">>), None)

\* detect_format(content)
DoDetectFormat ==
    /\ last_call = "new"
    /\ returned' = Some(detect_format(content))
    /\ last_call' = "detect_format"
    /\ UNCHANGED <<graph_nodes, graph_edges, node_map, in_batch, batch_events,
                   panicked, last_events, last_results, ref, shadow, flushed,
                   calls, snapshot>>
    /\ UNCHANGED source

NextDetect == DoDetectFormat

SpecDetect == InitDetect /\ [][NextDetect]_vars

\* ------------------------------------------------ the affects_node runs
\* event.affects_node(id), for the ids the events name and one they do not.
DoAffectsNode ==
    \E event \in GraphEvent, id \in Ids \cup {"C"} :
        /\ calls < MaxCalls
        /\ calls' = calls + 1
        /\ last_call' = "affects_node"
        /\ last_events' = <<event>>
        /\ node_id' = Some(id)
        /\ returned' = Some(affects_node(event, id))
        /\ UNCHANGED <<graph_nodes, graph_edges, node_map, in_batch, batch_events,
                       panicked, last_results, ref, shadow, flushed, snapshot,
                       content, graph_data, dot_events, parsed, uml_events>>

NextAffects == DoAffectsNode

SpecAffects == Init /\ [][NextAffects]_vars

\* ------------------------------------------------------------ the properties
\* The graph as a caller sees it by id.
HasEdge(st, from, to) ==
    /\ st.node_map[from] # None
    /\ st.node_map[to] # None
    /\ find_edge(st, Idx(st.node_map[from]), Idx(st.node_map[to]))

GraphOf(st) ==
    [ids |-> IdsOf(st),
     info |-> [id \in Ids |-> get_node(st, id)],
     edges |-> {p \in Ids \X Ids : HasEdge(st, p[1], p[2])}]

\* The step is the call process_event(event), made with no batch open.
Applied(event) ==
    /\ ~in_batch
    /\ last_call' = "process_event"
    /\ last_events' = <<event>>

\* C1: every id of the id map resolves to a node of the graph, and get_node(id)
\* is the NodeInfo last added or updated under id, and nothing for an id that
\* was never added or has been removed or cleared.
C1_IdsResolveToTheirNode ==
    \A id \in Ids :
        /\ node_map[id] # None => node_weight(Self, Idx(node_map[id])) # None
        /\ get_node(Self, id) = ref.nodes[id]

\* C2: a successful RemoveNode{id} lowers edge_count by exactly the number of
\* edges that had id as source or target and leaves no edge of id behind, and
\* RemoveEdge on a pair whose edge was not added (again) is never Success.
C2_RemovalCascades ==
    [][ /\ \A id \in Ids :
              (Applied(RemoveNode(id)) /\ last_results' = <<"Success">>) =>
                  /\ BagCardinality(graph_edges') =
                        BagCardinality(graph_edges)
                        - Cardinality({e \in ref.edges : e[1] = id \/ e[2] = id})
                  /\ \A e \in ref.edges' : HasEdge(Self', e[1], e[2])
        /\ \A from \in Ids, to \in Ids :
              (Applied(RemoveEdge(from, to)) /\ <<from, to>> \notin ref.edges) =>
                  last_results' \in {<<"NodeNotFound">>, <<"EdgeNotFound">>}
      ]_vars

\* C3: while a batch is open, an event other than BatchEnd leaves the graph and
\* the id map as they are (so node_count, edge_count and get_node too) and is
\* appended at the end of the queue.
C3_QueuedNotApplied ==
    [][ (in_batch /\ last_call' = "process_event"
            /\ last_events'[1].type # "BatchEnd") =>
            /\ graph_nodes' = graph_nodes
            /\ graph_edges' = graph_edges
            /\ node_map' = node_map
            /\ GraphOf(Self') = GraphOf(Self)
            /\ in_batch'
            /\ batch_events' = Append(batch_events, last_events'[1])
            /\ last_results' = <<"Success">>
      ]_vars

\* C3 witness: two different events wait in the queue of an open batch opened
\* on a graph that already has a node.
C3_Witness ==
    /\ in_batch
    /\ Len(batch_events) = 2
    /\ batch_events[1] # batch_events[2]
    /\ graph_nodes # <<>>

\* C4: when BatchEnd closes a batch whose queue holds no batch marker, the
\* graph (ids, NodeInfo per id, edges by id) is the one that applying the same
\* events one at a time, unbatched, from the state at BatchStart gives.
C4_BatchSameAsUnbatched ==
    (flushed # None /\ shadow # None /\ NoMarkers(Idx(flushed))) =>
        /\ GraphOf(Self) = GraphOf(Idx(shadow))
        /\ node_count(Self) = node_count(Idx(shadow))
        /\ edge_count(Self) = edge_count(Idx(shadow))

\* C4 witness: a batch of two events, a node and an edge to it, was flushed
\* onto a graph that had a node before the batch.
C4_Witness ==
    /\ flushed # None
    /\ shadow # None
    /\ Len(Idx(flushed)) = 2
    /\ Idx(flushed)[1].type = "AddNode"
    /\ Idx(flushed)[2].type = "AddEdge"
    /\ edge_count(Self) = 1
    /\ node_count(Self) = 2

\* Every event of the sequence has an arm in process_event.
AllHandled(events) == \A i \in 1..Len(events) : events[i].type # "AddRichEdge"

\* C5: the outcomes process_events returns for e1..eN wrapped in BatchStart and
\* BatchEnd are those of applying e1..eN one at a time without a batch.
C5_BatchedOutcomesAsUnbatched ==
    LET n == Len(last_events)
        inner == SubSeq(last_events, 2, n - 1)
    IN  (/\ last_call = "process_events"
         /\ n >= 2
         /\ last_events[1] = BatchStart
         /\ last_events[n] = BatchEnd
         /\ NoMarkers(inner)
         /\ AllHandled(inner)) =>
            SubSeq(last_results, 2, n - 1) = ProcessEvents(GraphStateNew, inner).results

\* C6: AddNode on an id that is present returns NodeExists and changes nothing
\* (the node keeps its NodeInfo); on an absent id it returns Success and
\* node_count grows by exactly one.
C6_AddNodeRejectsDuplicate ==
    [][ \A id \in Ids, info \in EventNodeInfos :
            Applied(AddNode(id, info)) =>
                IF ref.nodes[id] # None
                THEN /\ last_results' = <<"NodeExists">>
                     /\ Self' = Self
                     /\ node_count(Self') = node_count(Self)
                     /\ get_node(Self', id) = get_node(Self, id)
                ELSE /\ last_results' = <<"Success">>
                     /\ node_count(Self') = node_count(Self) + 1
                     /\ get_node(Self', id) = Some(IntoNodeInfo(info))
      ]_vars

\* C6 witness: an AddNode was rejected with NodeExists and the node under that
\* id still holds a NodeInfo other than the rejected one.
C6_Witness ==
    /\ last_call = "process_event"
    /\ last_results = <<"NodeExists">>
    /\ last_events[1].type = "AddNode"
    /\ get_node(Self, last_events[1].id) # None
    /\ get_node(Self, last_events[1].id) # Some(IntoNodeInfo(last_events[1].info))

\* C7: at most one edge per ordered pair of ids; AddEdge with both endpoints
\* present returns EdgeExists and leaves edge_count alone when the edge was
\* added before, and otherwise returns Success and adds exactly one edge.
C7_OneEdgePerPair ==
    [][ /\ \A e \in BagToSet(graph_edges') : CopiesIn(e, graph_edges') = 1
        /\ \A from \in Ids, to \in Ids :
              (/\ Applied(AddEdge(from, to))
               /\ ref.nodes[from] # None
               /\ ref.nodes[to] # None) =>
                  IF <<from, to>> \in ref.edges
                  THEN /\ last_results' = <<"EdgeExists">>
                       /\ edge_count(Self') = edge_count(Self)
                  ELSE /\ last_results' = <<"Success">>
                       /\ edge_count(Self') = edge_count(Self) + 1
                       /\ HasEdge(Self', from, to)
      ]_vars

\* C8: AddRichEdge follows the identity rules of AddEdge: NodeNotFound with a
\* missing endpoint, EdgeExists with the edge present, and otherwise Success
\* with exactly one edge added.
C8_RichEdgeLikeEdge ==
    [][ \A from \in Ids, to \in Ids, info \in EventEdgeInfos :
            Applied(AddRichEdge(from, to, info)) =>
                IF ref.nodes[from] = None \/ ref.nodes[to] = None
                THEN last_results' = <<"NodeNotFound">>
                ELSE IF <<from, to>> \in ref.edges
                THEN /\ last_results' = <<"EdgeExists">>
                     /\ edge_count(Self') = edge_count(Self)
                ELSE /\ last_results' = <<"Success">>
                     /\ edge_count(Self') = edge_count(Self) + 1
      ]_vars

\* C9: with every batch closed, node_count is the number of ids added and not
\* removed or cleared since, and edge_count the number of (from, to) pairs
\* added and not removed since.
C9_DedupCounts ==
    ~in_batch =>
        /\ node_count(Self) = Cardinality({id \in Ids : ref.nodes[id] # None})
        /\ edge_count(Self) = Cardinality(ref.edges)

\* The state after process_event was called on the first k events in turn.
RECURSIVE StateAfter(_, _)
StateAfter(events, k) ==
    IF k = 0 THEN GraphStateNew
    ELSE ProcessEvent(StateAfter(events, k - 1), events[k]).st

\* C10: process_events returns one outcome per input event, in input order,
\* and leaves the state that calling process_event on each event from left to
\* right leaves.
C10_ProcessEventsIsFold ==
    last_call = "process_events" =>
        /\ ~panicked
        /\ Len(last_results) = Len(last_events)
        /\ \A i \in 1..Len(last_events) :
              last_results[i] =
                  ProcessEvent(StateAfter(last_events, i - 1), last_events[i]).result
        /\ Self = StateAfter(last_events, Len(last_events))

\* The outcomes by which an event is rejected.
Rejections == EventResult \ {"Success"}

\* The states a queue passes through when each of its events is handed to
\* process_event in turn: the first is st, the one after event i is at i + 1.
RECURSIVE FlushStates(_, _)
FlushStates(st, events) ==
    IF events = <<>> THEN <<st>>
    ELSE <<st>> \o FlushStates(ProcessEvent(st, Head(events)).st, Tail(events))

\* The step is the call process_event(BatchEnd) that closes an open batch.
ClosesBatch ==
    /\ in_batch
    /\ last_call' = "process_event"
    /\ last_events' = <<BatchEnd>>

\* C11: in the flush at BatchEnd a queued event that is rejected leaves the
\* state as it was, and the flush goes on with the events queued after it:
\* unless a call unwinds, the state after BatchEnd is the one reached by
\* handing every queued event, rejected or not, to process_event in turn.
C11_RejectionKeepsFlushing ==
    [][ ClosesBatch =>
            LET n == Len(batch_events)
                T == FlushStates([Self EXCEPT !.in_batch = FALSE,
                                              !.batch_events = <<>>], batch_events)
            IN  /\ \A i \in 1..n :
                      ProcessEvent(T[i], batch_events[i]).result \in Rejections =>
                          T[i + 1] = T[i]
                /\ (\A i \in 1..(n + 1) : ~T[i].panicked) => Self' = T[n + 1]
      ]_vars

\* C11 witness: a batch opened on the empty graph was flushed with a RemoveNode
\* (rejected, nothing to remove) queued before an AddNode, and the node is there.
C11_Witness ==
    /\ flushed # None
    /\ calls = 4
    /\ Len(Idx(flushed)) = 2
    /\ Idx(flushed)[1].type = "RemoveNode"
    /\ Idx(flushed)[2].type = "AddNode"
    /\ node_count(Self) = 1
    /\ get_node(Self, Idx(flushed)[2].id) # None

\* C12: with no batch open, UpdateNode or RemoveNode on an absent id, and
\* AddEdge or RemoveEdge with an absent endpoint, return NodeNotFound, and
\* RemoveEdge between two present ids without an edge returns EdgeNotFound, all
\* leaving the state unchanged; UpdateNode, AddEdge and RemoveEdge never return
\* NodeNotFound when every id they name is present.
C12_AbsentTargetsRejected ==
    [][ /\ \A id \in Ids, info \in EventNodeInfos :
              Applied(UpdateNode(id, info)) =>
                  IF ref.nodes[id] = None
                  THEN last_results' = <<"NodeNotFound">> /\ Self' = Self
                  ELSE last_results' # <<"NodeNotFound">>
        /\ \A id \in Ids :
              (Applied(RemoveNode(id)) /\ ref.nodes[id] = None) =>
                  last_results' = <<"NodeNotFound">> /\ Self' = Self
        /\ \A from \in Ids, to \in Ids :
              Applied(AddEdge(from, to)) =>
                  IF ref.nodes[from] = None \/ ref.nodes[to] = None
                  THEN last_results' = <<"NodeNotFound">> /\ Self' = Self
                  ELSE last_results' # <<"NodeNotFound">>
        /\ \A from \in Ids, to \in Ids :
              Applied(RemoveEdge(from, to)) =>
                  IF ref.nodes[from] = None \/ ref.nodes[to] = None
                  THEN last_results' = <<"NodeNotFound">> /\ Self' = Self
                  ELSE IF <<from, to>> \notin ref.edges
                  THEN last_results' = <<"EdgeNotFound">> /\ Self' = Self
                  ELSE last_results' # <<"NodeNotFound">>
      ]_vars

\* The ids of an exported graph, and its edges by id.
SnapshotIds(snap) == {id \in DOMAIN snap.node_map : snap.node_map[id] # None}

SnapshotEdges(snap) ==
    {p \in SnapshotIds(snap) \X SnapshotIds(snap) :
        BagIn(<<Idx(snap.node_map[p[1]]), Idx(snap.node_map[p[2]])>>, snap.graph_edges)}

\* C13: the graph as_graph_data returns has the node count and the edge count
\* of the live state, exactly its ids, and under each id the NodeInfo the live
\* state has for it.
C13_SnapshotFidelity ==
    last_call = "as_graph_data" =>
        LET snap == Idx(snapshot)
        IN  /\ Len(snap.graph_nodes) = node_count(Self)
            /\ BagCardinality(snap.graph_edges) = edge_count(Self)
            /\ SnapshotIds(snap) = IdsOf(Self)
            /\ \A id \in IdsOf(Self) :
                  node_weight(snap, Idx(snap.node_map[id])) = get_node(Self, id)

\* C14: the graph as_graph_data returns has an edge from id a to id b exactly
\* when the live state has one (the pair was added and not removed since), and
\* no edge of the live graph is left out.
C14_SnapshotEdges ==
    last_call = "as_graph_data" =>
        /\ SnapshotEdges(Idx(snapshot)) = ref.edges
        /\ BagCardinality(Idx(snapshot).graph_edges) = edge_count(Self)

\* The read-only calls.
Reads == {"as_graph_data", "node_count", "edge_count", "get_node"}

\* C15: an event processed after as_graph_data leaves the graph it returned as
\* it is, and as_graph_data, node_count, edge_count and get_node leave the live
\* graph, the id map, the in-batch flag and the queue as they are.
C15_SnapshotsDoNotAlias ==
    [][ /\ last_call' = "process_event" => snapshot' = snapshot
        /\ last_call' \in Reads =>
              /\ graph_nodes' = graph_nodes
              /\ graph_edges' = graph_edges
              /\ node_map' = node_map
              /\ in_batch' = in_batch
              /\ batch_events' = batch_events
      ]_vars

\* C15 witness: a graph exported while a batch was open with an event queued
\* is held while the batch is closed and the live graph has grown past it.
C15_Witness ==
    /\ snapshot # None
    /\ last_call = "process_event"
    /\ flushed # None
    /\ Idx(flushed) # <<>>
    /\ Len(Idx(snapshot).graph_nodes) < node_count(Self)

\* The AddNode events of a sequence, in order.
AddNodesOf(events) == SelectSeq(events, LAMBDA e : e.type = "AddNode")

\* C16: once the events of a document were applied to a new GraphState and the
\* graph was exported, the export has the node count and the edge count of the
\* directly parsed graph, and every directly parsed name is an id of it with
\* the same name, node_type and level.
C16_EventsSameAsDirectParse ==
    (last_call = "as_graph_data" /\ dot_events # None) =>
        LET direct == parse_dot_file(content)
            snap == Idx(snapshot)
        IN  /\ Len(direct.graph_nodes) = Len(snap.graph_nodes)
            /\ Len(direct.edges) = BagCardinality(snap.graph_edges)
            /\ \A name \in DOMAIN direct.node_map :
                  /\ name \in SnapshotIds(snap)
                  /\ node_weight(snap, Idx(snap.node_map[name]))
                        = Some(direct.graph_nodes[direct.node_map[name] + 1])

\* C17: the events DotSource::events returns for a document, the empty one
\* included, start with BatchStart, end with BatchEnd and hold no other batch
\* marker.
C17_SingleOuterBatch ==
    dot_events # None =>
        LET events == Idx(dot_events)
        IN  /\ Len(events) >= 2
            /\ events[1] = BatchStart
            /\ events[Len(events)] = BatchEnd
            /\ NoMarkers(SubSeq(events, 2, Len(events) - 1))

\* C17 witness: the events of a three-line document with two nodes and three
\* edges.
C17_Witness ==
    /\ dot_events # None
    /\ Len(content) = 3
    /\ Len(Idx(dot_events)) = 7
    /\ Idx(dot_events)[2].type = "AddNode"
    /\ Idx(dot_events)[6].type = "AddEdge"

\* C18: DotSource::events emits one AddNode per node of the graph, in node
\* order, with pairwise distinct ids; the id is the node's name when no earlier
\* AddNode has it, and otherwise name_k for the smallest k >= 2 that no earlier
\* AddNode has (k is at most one more than the number of earlier nodes).
C18_DistinctNodeIds ==
    dot_events # None =>
        LET adds == AddNodesOf(Idx(dot_events))
            nodes == Idx(graph_data).graph_nodes
            used(i) == {adds[j].id : j \in 1..(i - 1)}
        IN  /\ Len(adds) = Len(nodes)
            /\ \A i \in 1..Len(adds), j \in 1..Len(adds) :
                  i # j => adds[i].id # adds[j].id
            /\ \A i \in 1..Len(adds) :
                  /\ adds[i].info = FromNodeInfo(nodes[i])
                  /\ IF nodes[i].name \notin used(i)
                     THEN adds[i].id = nodes[i].name
                     ELSE \E k \in 2..(i + 1) :
                            /\ adds[i].id = Format(nodes[i].name, k)
                            /\ Format(nodes[i].name, k) \notin used(i)
                            /\ \A m \in 2..(k - 1) : Format(nodes[i].name, m) \in used(i)

\* C18 witness: of the nodes A, A_2, A the third finds both A and A_2 in use
\* and becomes A_3.
C18_Witness ==
    /\ dot_events # None
    /\ graph_data # None
    /\ Len(Idx(graph_data).graph_nodes) = 3
    /\ Idx(graph_data).graph_nodes[2].name = NameA2
    /\ Idx(graph_data).graph_nodes[3].name = NameA
    /\ Idx(dot_events)[4].type = "AddNode"
    /\ Idx(dot_events)[4].id = <<"A", "_", "3">>

C20_EveryNodeEmittedOnce ==
    dot_events # None =>
        LET adds == AddNodesOf(Idx(dot_events))
        IN  \A name \in Referenced(content) :
                Cardinality({i \in 1..Len(adds) : adds[i].id = name}) = 1

\* C21: for every document, also one with a line whose brackets are out of
\* order, the call of DotSource::events comes back with the events: the parser
\* ran to its end and nothing panicked.
C21_ParsingNeverFails ==
    last_call # "new" =>
        /\ ~panicked
        /\ graph_data # None
        /\ dot_events # None

\* The endpoints of two edge statements in the order of their first
\* occurrence, each once.
Endpoints(e1, e2) ==
    LET all == <<e1[1], e1[2], e2[1], e2[2]>>
        first == {i \in 1..4 : \A j \in 1..(i - 1) : all[j] # all[i]}
        RECURSIVE InOrder(_)
        InOrder(i) == IF i > 4 THEN <<>>
                      ELSE (IF i \in first THEN <<all[i]>> ELSE <<>>) \o InOrder(i + 1)
    IN  InOrder(1)

\* C22: a document whose edge statements are X -> Y and Z -> W, written one per
\* line or on one line, yields BatchStart, one AddNode per distinct endpoint,
\* AddEdge X->Y, AddEdge Z->W, BatchEnd; applied to a new GraphState the events
\* leave as many nodes as distinct endpoints and as many edges as distinct
\* statements (A -> B, B -> C: 3 AddNode, 2 AddEdge, node_count 3,
\* edge_count 2).
C22_DotRoundTrip ==
    \A e1 \in Names \X Names, e2 \in Names \X Names :
        (content \in {PerLine(e1, e2), OneLine(e1, e2)} /\ last_call # "new") =>
            /\ dot_events # None
            /\ LET events == Idx(dot_events)
                   ends == Endpoints(e1, e2)
                   n == Len(ends)
               IN  /\ Len(events) = n + 4
                   /\ events[1] = BatchStart
                   /\ \A i \in 1..n :
                        /\ events[i + 1].type = "AddNode"
                        /\ events[i + 1].id = ends[i]
                   /\ events[n + 2] = AddEdge(e1[1], e1[2])
                   /\ events[n + 3] = AddEdge(e2[1], e2[2])
                   /\ events[n + 4] = BatchEnd
                   /\ last_call \in {"process_events", "as_graph_data"} =>
                        /\ node_count(Self) = n
                        /\ edge_count(Self) = Cardinality({e1, e2})

\* The type and level a document declares for a name: those of its last
\* standalone statement `"name" [..]`, the defaults without one.
DeclaredAttr(document, name) ==
    LET stmt(i) == CHOOSE s \in Statements : Render(s) = document[i]
        declaring == {i \in 1..Len(document) :
                        /\ stmt(i).kind = "node"
                        /\ stmt(i).name = name
                        /\ stmt(i).block # <<>>}
        block == stmt(Max(declaring)).block
    IN  IF declaring = {} THEN [node_type |-> "Default", level |-> 0]
        ELSE IF block = TeamBlock THEN [node_type |-> "Team", level |-> 2]
        ELSE [node_type |-> "User", level |-> 0]

C24_ParseErrorOrEvents ==
    uml_events # None =>
        LET result == Idx(parsed)
            out == Idx(uml_events)
        IN  IF result.ok
            THEN /\ out.ok
                 /\ DOMAIN out = {"ok", "events"}
                 /\ \A i \in 1..Len(result.events) :
                        (/\ result.events[i].type = "AddNode"
                         /\ result.events[i].node_type.kind = "Other") =>
                            \E j \in 1..Len(out.events) :
                                /\ out.events[j].type = "AddNode"
                                /\ out.events[j].id = result.events[i].id
                                /\ out.events[j].info.node_type = None
            ELSE /\ ~out.ok
                 /\ DOMAIN out = {"ok", "error"}
                 /\ out.error = ParseError(result.message)

\* C24 witness: a failed parse came back as ParseError.
C24_Witness ==
    /\ uml_events # None
    /\ ~Idx(parsed).ok
    /\ Idx(uml_events) = [ok |-> FALSE, error |-> ParseError("unterminated block")]

\* The AddNode and AddEdge events of the parser, and the events emitted for
\* them, in order.
ParsedOf(type) == SelectSeq(Idx(parsed).events, LAMBDA e : e.type = type)
EmittedOf(type) == SelectSeq(Idx(uml_events).events, LAMBDA e : e.type = type)

\* C25: PlantUMLSource emits no AddEdge and one AddRichEdge per edge of the
\* parser, in order, with the same endpoints; its label is the message label
\* unchanged, its sequence the message's sequence number, and its edge_type
\* "sync", "async", "return", "create" or "destroy" for a synchronous,
\* asynchronous, return, create or destroy message.
C25_RichEdges ==
    (uml_events # None /\ Idx(uml_events).ok) =>
        LET edges == ParsedOf("AddEdge")
            rich == EmittedOf("AddRichEdge")
        IN  /\ EmittedOf("AddEdge") = <<>>
            /\ Len(rich) = Len(edges)
            /\ \A i \in 1..Len(edges) :
                  /\ rich[i].from = edges[i].from
                  /\ rich[i].to = edges[i].to
                  /\ rich[i].info.label = edges[i].label
                  /\ edges[i].edge_type.kind = "Message" =>
                        /\ rich[i].info.sequence = edges[i].edge_type.sequence
                        /\ rich[i].info.edge_type =
                             Some(CASE edges[i].edge_type.message_type = "Synchronous" -> "sync"
                                    [] edges[i].edge_type.message_type = "Asynchronous" -> "async"
                                    [] edges[i].edge_type.message_type = "Return" -> "return"
                                    [] edges[i].edge_type.message_type = "Create" -> "create"
                                    [] edges[i].edge_type.message_type = "Destroy" -> "destroy")

\* C25 witness: `User -> Server: Request` and an asynchronous message without
\* label were emitted as rich edges.
C25_Witness ==
    /\ uml_events # None
    /\ Idx(uml_events).ok
    /\ Len(Idx(uml_events).events) = 2
    /\ Idx(uml_events).events[1] =
          AddRichEdge("User", "Server",
                      [label |-> Some("Request"), edge_type |-> Some("sync"),
                       sequence |-> Some(1)])
    /\ Idx(uml_events).events[2] =
          AddRichEdge("User", "Server",
                      [label |-> None, edge_type |-> Some("async"),
                       sequence |-> None])

\* C26: the level of an emitted node is 0 for a sequential position, the layer
\* number for a layered position, and 0 without a position.
C26_LevelFromPosition ==
    (uml_events # None /\ Idx(uml_events).ok) =>
        LET nodes == ParsedOf("AddNode")
            adds == EmittedOf("AddNode")
        IN  /\ Len(adds) = Len(nodes)
            /\ \A i \in 1..Len(nodes) :
                  adds[i].info.level =
                     IF nodes[i].position = None THEN 0
                     ELSE IF Idx(nodes[i].position).kind = "Layer"
                     THEN Idx(nodes[i].position).level
                     ELSE 0

\* C27: the node_type of an emitted node is "actor:k" for an actor of kind k,
\* "database" for a datastore, "process" for a process, "external" for an
\* external, the raw tag for a custom kind and none for any other kind; its
\* name is the label when there is one and the id otherwise.
C27_NodeTypeAndName ==
    (uml_events # None /\ Idx(uml_events).ok) =>
        LET nodes == ParsedOf("AddNode")
            adds == EmittedOf("AddNode")
        IN  /\ Len(adds) = Len(nodes)
            /\ \A i \in 1..Len(nodes) :
                  /\ adds[i].id = nodes[i].id
                  /\ adds[i].info.name =
                        IF nodes[i].label # None THEN Idx(nodes[i].label)
                        ELSE nodes[i].id
                  /\ adds[i].info.node_type =
                        CASE nodes[i].node_type.kind = "Actor" ->
                                Some(<<"a", "c", "t", "o", "r", ":">>
                                        \o nodes[i].node_type.actor_type)
                          [] nodes[i].node_type.kind = "DataStore" ->
                                Some(<<"d", "a", "t", "a", "b", "a", "s", "e">>)
                          [] nodes[i].node_type.kind = "Process" ->
                                Some(<<"p", "r", "o", "c", "e", "s", "s">>)
                          [] nodes[i].node_type.kind = "External" ->
                                Some(<<"e", "x", "t", "e", "r", "n", "a", "l">>)
                          [] nodes[i].node_type.kind = "Custom" ->
                                Some(nodes[i].node_type.text)
                          [] OTHER -> None

\* C27 witness: an actor with a label and a custom participant without one.
C27_Witness ==
    /\ uml_events # None
    /\ Idx(uml_events).ok
    /\ Len(Idx(uml_events).events) = 2
    /\ Idx(uml_events).events[1].type = "AddNode"
    /\ Idx(uml_events).events[1].info.name = "Customer"
    /\ Idx(uml_events).events[1].info.node_type =
            Some(<<"a", "c", "t", "o", "r", ":", "U", "s", "e", "r">>)
    /\ Idx(uml_events).events[2].type = "AddNode"
    /\ Idx(uml_events).events[2].info.name = "User"
    /\ Idx(uml_events).events[2].info.node_type = Some(<<"S", "v", "c">>)

\* C28: detect_format answers plantuml when the text holds @startuml or
\* @startsequence, whatever else it holds; otherwise dot when it holds digraph,
\* graph or ->; otherwise dot when it holds both [ and ]; otherwise nothing,
\* and nothing only when none of the markers is in the text.  The same text
\* with white space put around it gets the same answer.
C28_DetectFormatPriority ==
    last_call = "detect_format" =>
        LET text == Text(content)
            has(marker) == \E i \in 0..Len(text) :
                              /\ i + Len(marker) <= Len(text)
                              /\ \A k \in 1..Len(marker) : text[i + k] = marker[k]
            uml == has(StartUml) \/ has(StartSequence)
            dot == has(Digraph) \/ has(Graph) \/ has(<<"-", ">">>)
            brackets == has(<<"[">>) /\ has(<<"]">>)
            answer == Idx(returned)
        IN  /\ uml => answer = Some("plantuml")
            /\ (~uml /\ dot) => answer = Some("dot")
            /\ (~uml /\ ~dot /\ brackets) => answer = Some("dot")
            /\ (~uml /\ ~dot /\ ~brackets) => answer = None
            /\ answer = None <=> ~(uml \/ dot \/ brackets)
            /\ \A before \in {<<>>, <<" ">>, <<"\n", "\t">>},
                  after \in {<<>>, <<" ", "\n">>} :
                    detect_format(Split(before \o text \o after, <<"\n">>)) = answer

\* C28 witness: a text with digraph and a bracket pair after @startuml, inside
\* white space, was classified plantuml.
C28_Witness ==
    /\ last_call = "detect_format"
    /\ Text(content) = <<" ">> \o StartUml \o Digraph
    /\ returned = Some(Some("plantuml"))

\* C29: affects_node is true for Clear and any id, false for BatchStart and
\* BatchEnd and any id, true for AddNode, UpdateNode and RemoveNode exactly
\* when the id is the event's id, and true for AddEdge, AddRichEdge and
\* RemoveEdge exactly when the id is the event's from or its to.
C29_AffectsNode ==
    last_call = "affects_node" =>
        LET event == last_events[1]
            id == Idx(node_id)
            answer == Idx(returned)
        IN  /\ event = Clear => answer
            /\ event \in {BatchStart, BatchEnd} => ~answer
            /\ event.type \in {"AddNode", "UpdateNode", "RemoveNode"} =>
                    (answer <=> id = event.id)
            /\ event.type \in {"AddEdge", "AddRichEdge", "RemoveEdge"} =>
                    (answer <=> id \in {event.from, event.to})

\* C29 witness: a rich edge was asked about its target, which is not its
\* source.
C29_Witness ==
    /\ last_call = "affects_node"
    /\ last_events[1].type = "AddRichEdge"
    /\ last_events[1].from # last_events[1].to
    /\ node_id = Some(last_events[1].to)
    /\ returned = Some(TRUE)

\* C30: the type text declared for a node is what the node carries in its
\* AddNode event and in the exported graph.  So two nodes carry the same
\* node_type only if the same text, or none, was declared for both: a text
\* outside the known set is not turned into the default nor into another tag.
C30_TagsPreserved ==
    \A tag_a \in {None} \cup {Some(t) : t \in TagTexts},
       tag_b \in {None} \cup {Some(t) : t \in TagTexts},
       edge \in {<<NameA, NameB>>, <<NameB, NameA>>} :
        (content = TypedDocument(tag_a, tag_b, edge) /\ dot_events # None) =>
            LET adds == AddNodesOf(Idx(dot_events))
                emitted(name) == (CHOOSE i \in 1..Len(adds) : adds[i].id = name)
                type_a == adds[emitted(NameA)].info.node_type
                type_b == adds[emitted(NameB)].info.node_type
            IN  /\ (type_a = type_b) => (tag_a = tag_b)
                /\ last_call = "as_graph_data" =>
                      LET snap == Idx(snapshot)
                          kept(name) ==
                            Idx(node_weight(snap, Idx(snap.node_map[name]))).node_type
                      IN  /\ kept(NameA) = type_a
                          /\ kept(NameB) = type_b

\* C31: process_event(BatchStart) with a batch open returns Success, leaves the
\* flag set and the graph alone, and puts the BatchStart at the end of the
\* queue, whose earlier events are kept; with no batch open it returns
\* Success, sets the flag and leaves the queue empty.
C31_NestedBatchStartQueued ==
    [][ (last_call' = "process_event" /\ last_events' = <<BatchStart>>) =>
            /\ last_results' = <<"Success">>
            /\ in_batch'
            /\ graph_nodes' = graph_nodes
            /\ graph_edges' = graph_edges
            /\ node_map' = node_map
            /\ IF in_batch
               THEN batch_events' = Append(batch_events, BatchStart)
               ELSE batch_events' = <<>>
      ]_vars

\* C31 witness: a BatchStart waits in the queue behind the event queued
\* before it.
C31_Witness ==
    /\ in_batch
    /\ last_events = <<BatchStart>>
    /\ Len(batch_events) = 2
    /\ batch_events[1].type = "AddNode"
    /\ batch_events[2] = BatchStart

\* C32: when process_event(BatchEnd) returns, the flag is false, the queue is
\* empty, and the graph is the one that applying every event that was queued,
\* in its order and with no batch open, gives: no queued event waits for a
\* later BatchEnd.
C32_BatchEndAppliesAll ==
    [][ (ClosesBatch /\ ~panicked') =>
            LET T == FlushStates([Self EXCEPT !.in_batch = FALSE,
                                              !.batch_events = <<>>], batch_events)
            IN  /\ ~in_batch'
                /\ batch_events' = <<>>
                /\ \A i \in 1..Len(batch_events) : ~Queues(T[i], batch_events[i])
      ]_vars

\* C33: every call of process_event returns, and what it returns is Success,
\* NodeExists, NodeNotFound, EdgeExists or EdgeNotFound; no call unwinds,
\* whatever was removed before.
C33_ProcessEventTotal ==
    /\ ~panicked
    /\ \A i \in 1..Len(last_results) : last_results[i] \in EventResult

\* C34: two different ids of the id map never hold the same index, and the
\* number of ids in the map is node_count().
C34_IdMapInjective ==
    /\ \A id1 \in IdsOf(Self), id2 \in IdsOf(Self) :
          id1 # id2 => node_map[id1] # node_map[id2]
    /\ Cardinality(IdsOf(Self)) = node_count(Self)

\* C35: a successful RemoveNode{id} with no batch open lowers node_count by
\* one and leaves every other id present with its NodeInfo and every edge
\* between two other ids in place; an id other than the removed one is present
\* afterwards only if it was before.
C35_RemoveNodeFrame ==
    [][ \A id \in Ids :
            (Applied(RemoveNode(id)) /\ last_results' = <<"Success">>) =>
                /\ node_count(Self') = node_count(Self) - 1
                /\ get_node(Self', id) = None
                /\ \A other \in Ids \ {id} :
                      /\ (other \in IdsOf(Self')) <=> (other \in IdsOf(Self))
                      /\ get_node(Self', other) = get_node(Self, other)
                /\ \A from \in Ids \ {id}, to \in Ids \ {id} :
                      HasEdge(Self', from, to) <=> HasEdge(Self, from, to)
      ]_vars

\* C36: UpdateNode{id, info} with no batch open, on an id added and not
\* removed or cleared since, returns Success; afterwards get_node(id) is info,
\* and node_count, the edges and the NodeInfo of every other id are as before.
C36_UpdateNodeFrame ==
    [][ \A id \in Ids, info \in EventNodeInfos :
            (Applied(UpdateNode(id, info)) /\ ref.nodes[id] # None) =>
                /\ last_results' = <<"Success">>
                /\ get_node(Self', id) = Some(IntoNodeInfo(info))
                /\ node_count(Self') = node_count(Self)
                /\ graph_edges' = graph_edges
                /\ node_map' = node_map
                /\ \A other \in Ids \ {id} :
                      get_node(Self', other) = get_node(Self, other)
      ]_vars

\* C37: RemoveEdge{from, to} with no batch open returns Success exactly when
\* an edge from->to was added with Success and not removed since; it then
\* lowers edge_count by one, leaves node_count alone, removes the edge
\* from->to and keeps every other edge, to->from included.
C37_RemoveEdgeByOrderedPair ==
    [][ \A from \in Ids, to \in Ids :
            Applied(RemoveEdge(from, to)) =>
                /\ (last_results' = <<"Success">>) <=> (<<from, to>> \in ref.edges)
                /\ last_results' = <<"Success">> =>
                      /\ edge_count(Self') = edge_count(Self) - 1
                      /\ node_count(Self') = node_count(Self)
                      /\ ~HasEdge(Self', from, to)
                      /\ \A p \in (Ids \X Ids) \ {<<from, to>>} :
                            HasEdge(Self', p[1], p[2]) <=> HasEdge(Self, p[1], p[2])
      ]_vars

\* C38: Clear with no batch open returns Success and leaves node_count 0,
\* edge_count 0 and no node under any id; the flag and the queue are as
\* before, and an AddNode of any id made next returns Success.
C38_ClearEmpties ==
    [][ Applied(Clear) =>
            /\ last_results' = <<"Success">>
            /\ node_count(Self') = 0
            /\ edge_count(Self') = 0
            /\ \A id \in Ids : get_node(Self', id) = None
            /\ in_batch' = in_batch
            /\ batch_events' = batch_events
            /\ \A id \in Ids, info \in EventNodeInfos :
                  /\ ProcessEvent(Self', AddNode(id, info)).result = "Success"
                  /\ get_node(ProcessEvent(Self', AddNode(id, info)).st, id)
                        = Some(IntoNodeInfo(info))
      ]_vars

\* C38 witness: the fourth call was a Clear made with no batch open, and the
\* graph is empty.
C38_Witness ==
    /\ calls = 4
    /\ last_call = "process_event"
    /\ last_events = <<Clear>>
    /\ last_results = <<"Success">>
    /\ ~in_batch
    /\ node_count(Self) = 0
    /\ edge_count(Self) = 0

\* C39: with the flag false the queue is empty.
C39_QueueEmptyOutsideBatch ==
    ~in_batch => batch_events = <<>>

\* C39 witness: a BatchEnd has closed a batch whose queue held two events.
C39_Witness ==
    /\ ~in_batch
    /\ flushed # None
    /\ Len(Idx(flushed)) = 2
    /\ batch_events = <<>>
    /\ last_events = <<BatchEnd>>

\* C40: BatchEnd with no batch open returns Success and leaves the graph, the
\* id map, the flag (false) and the queue (empty) as they were.
C40_StrayBatchEnd ==
    [][ Applied(BatchEnd) =>
            /\ last_results' = <<"Success">>
            /\ Self' = Self
            /\ ~in_batch'
            /\ batch_events' = <<>>
      ]_vars

\* C40 witness: a BatchEnd was processed with no batch open on a graph with a
\* node.
C40_Witness ==
    /\ last_events = <<BatchEnd>>
    /\ last_call = "process_event"
    /\ flushed = None
    /\ node_count(Self) >= 1
    /\ ~in_batch

====
